---- MODULE Spec2Model ----
(***************************************************************************)
(* Model of site_index_equations.py: six site-index equations, each a      *)
(* function (height, bh_age) -> site_index.                                *)
(*                                                                         *)
(* Numbers.  Finite values are exact rationals held as arbitrary-precision *)
(* numerator and denominator (TLC's own integers are 32 bits wide, too     *)
(* narrow for the nine-digit coefficients), so the arithmetic is the real  *)
(* arithmetic the floating-point code approximates; rounding to 53 bits is *)
(* not modelled.  The IEEE special values (+inf, -inf, nan, the sign of a  *)
(* zero) are modelled, as is the difference between Python's own numbers,  *)
(* whose division by zero raises ZeroDivisionError, and numpy's float64    *)
(* scalars and arrays, whose division by zero gives inf or nan.  The       *)
(* results of numpy's log, log10, exp and fractional power that are not    *)
(* rational are kept as terms with rational bounds; the bounds decide the  *)
(* sign of a term and whether an exponential overflows the float64 range.  *)
(***************************************************************************)
EXTENDS Integers, Sequences, FiniteSets, TLC

(***************************************************************************)
(* Arbitrary-precision naturals: little-endian sequences of limbs, no      *)
(* leading (high-order) zero limb; zero is the empty sequence.             *)
(***************************************************************************)
Base == 100 * 100

RECURSIVE NNorm(_)
NNorm(a) ==
  IF a = <<>> THEN <<>>
  ELSE IF a[Len(a)] = 0 THEN NNorm(SubSeq(a, 1, Len(a) - 1))
  ELSE a

RECURSIVE NOfInt(_)
NOfInt(i) == IF i = 0 THEN <<>> ELSE <<i % Base>> \o NOfInt(i \div Base)

RECURSIVE NAddC(_, _, _)
NAddC(a, b, c) ==
  IF a = <<>> /\ b = <<>> THEN (IF c = 0 THEN <<>> ELSE <<c>>)
  ELSE LET x == IF a = <<>> THEN 0 ELSE Head(a)
           y == IF b = <<>> THEN 0 ELSE Head(b)
           s == x + y + c
       IN  <<s % Base>> \o NAddC(IF a = <<>> THEN a ELSE Tail(a),
                                 IF b = <<>> THEN b ELSE Tail(b),
                                 s \div Base)

NAdd(a, b) == NAddC(a, b, 0)

\* a - b for a >= b, limb by limb with borrow c
RECURSIVE NSubC(_, _, _)
NSubC(a, b, c) ==
  IF a = <<>> THEN <<>>
  ELSE LET y == IF b = <<>> THEN 0 ELSE Head(b)
           s == Head(a) - y - c
       IN  IF s < 0
           THEN <<s + Base>> \o NSubC(Tail(a), IF b = <<>> THEN b ELSE Tail(b), 1)
           ELSE <<s>> \o NSubC(Tail(a), IF b = <<>> THEN b ELSE Tail(b), 0)

NSub(a, b) == NNorm(NSubC(a, b, 0))

\* -1, 0, 1 as a < b, a = b, a > b
RECURSIVE NCmpAt(_, _, _)
NCmpAt(a, b, i) ==
  IF i = 0 THEN 0
  ELSE IF a[i] < b[i] THEN -1
  ELSE IF a[i] > b[i] THEN 1
  ELSE NCmpAt(a, b, i - 1)

NCmp(a, b) ==
  IF Len(a) < Len(b) THEN -1
  ELSE IF Len(a) > Len(b) THEN 1
  ELSE NCmpAt(a, b, Len(a))

RECURSIVE NMulLimb(_, _, _)
NMulLimb(a, x, c) ==
  IF a = <<>> THEN (IF c = 0 THEN <<>> ELSE <<c>>)
  ELSE LET s == Head(a) * x + c
       IN  <<s % Base>> \o NMulLimb(Tail(a), x, s \div Base)

RECURSIVE NMul(_, _)
NMul(a, b) ==
  IF a = <<>> \/ b = <<>> THEN <<>>
  ELSE LET rest == NMul(a, Tail(b))
       IN  NAdd(NMulLimb(a, Head(b), 0),
                IF rest = <<>> THEN <<>> ELSE <<0>> \o rest)

RECURSIVE NPow10(_)
NPow10(k) == IF k = 0 THEN <<1>> ELSE NMulLimb(NPow10(k - 1), 10, 0)

\* the largest digit k in lo..hi with d * k <= r
RECURSIVE NDigit(_, _, _, _)
NDigit(r, d, lo, hi) ==
  IF Len(d) = 1
  THEN (IF r = <<>> THEN 0
        ELSE (r[1] + (IF Len(r) > 1 THEN Base * r[2] ELSE 0)) \div d[1])
  ELSE IF lo = hi THEN lo
  ELSE LET mid == (lo + hi + 1) \div 2
       IN  IF NCmp(NMulLimb(d, mid, 0), r) <= 0 THEN NDigit(r, d, mid, hi)
           ELSE NDigit(r, d, lo, mid - 1)

\* quotient q and remainder r of n by d > 0, by long division
RECURSIVE NDivMod(_, _)
NDivMod(n, d) ==
  IF n = <<>> THEN [q |-> <<>>, r |-> <<>>]
  ELSE IF Head(d) = 0
  THEN LET h == NDivMod(Tail(n), Tail(d))
       IN  [q |-> h.q, r |-> NNorm(<<Head(n)>> \o h.r)]
  ELSE LET h == NDivMod(Tail(n), d)
           r0 == NNorm(<<Head(n)>> \o h.r)
           dig == NDigit(r0, d, 0, Base - 1)
       IN  [q |-> NNorm(<<dig>> \o h.q), r |-> NSub(r0, NMulLimb(d, dig, 0))]

(***************************************************************************)
(* Values.                                                                 *)
(*   [k |-> "q", neg, n, d, np]   the finite rational (-1)^neg * n/d, d>0; *)
(*                                neg on n = <<>> is the sign of a zero    *)
(*   [k |-> "t", lo, hi, sg, e, np]  a finite result of a numpy function   *)
(*                                that is not kept as a rational: the term *)
(*                                e, bounds lo < value < hi (each a        *)
(*                                rational or an infinity) and the sign sg *)
(*                                the bounds give it (2: they give none)   *)
(*   [k |-> "pinf" | "ninf" | "nan", np]  IEEE special values              *)
(*   [k |-> "unk", np]            a value whose class the bounds do not    *)
(*                                decide (no call reaches one: Decided)    *)
(*   [k |-> "raise", exc]         the evaluation ended in exception exc    *)
(*   [k |-> "arr", e]             a numpy array, e the sequence of items   *)
(* np is TRUE for a numpy float64 and FALSE for a Python int or float.     *)
(***************************************************************************)
Q(neg, n, d, np) == [k |-> "q", neg |-> neg, n |-> n, d |-> d, np |-> np]
PInf == [k |-> "pinf", np |-> TRUE]
NInf == [k |-> "ninf", np |-> TRUE]
NaN  == [k |-> "nan", np |-> TRUE]
Unk  == [k |-> "unk", np |-> TRUE]
Raise(exc) == [k |-> "raise", exc |-> exc]
Arr(items) == [k |-> "arr", e |-> items]

\* the decimal literal m * 10^-s as a Python number, and as a numpy float64
Py(m, s) == Q(m < 0, NOfInt(IF m < 0 THEN -m ELSE m), NPow10(s), FALSE)
Np(m, s) == Q(m < 0, NOfInt(IF m < 0 THEN -m ELSE m), NPow10(s), TRUE)

\* a small integer as a rational
QInt(i) == Q(i < 0, NOfInt(IF i < 0 THEN -i ELSE i), <<1>>, TRUE)
One == Q(FALSE, <<1>>, <<1>>, TRUE)
PZero == Q(FALSE, <<>>, <<1>>, TRUE)
Zero(neg) == Q(neg, <<>>, <<1>>, TRUE)

IsZero(x) == x.k = "q" /\ x.n = <<>>
IsInf(x) == x.k \in {"pinf", "ninf"}
IsNonFinite(x) == x.k \in {"pinf", "ninf", "nan"}

QSgn(x) == IF x.n = <<>> THEN 0 ELSE IF x.neg THEN -1 ELSE 1

\* -1, 0, 1 as x < y, x = y, x > y for rationals (zeros compare equal)
QCmp(x, y) ==
  IF QSgn(x) # QSgn(y) THEN (IF QSgn(x) < QSgn(y) THEN -1 ELSE 1)
  ELSE IF x.d = y.d THEN QSgn(x) * NCmp(x.n, y.n)
  ELSE QSgn(x) * NCmp(NMul(x.n, y.d), NMul(y.n, x.d))

\* (-1)^xneg * a/d + (-1)^yneg * b/d
QAddSame(xneg, a, yneg, b, d, np) ==
  IF xneg = yneg THEN Q(xneg, NAdd(a, b), d, np)
  ELSE IF NCmp(a, b) = 0 THEN Q(FALSE, <<>>, d, np)
  ELSE IF NCmp(a, b) = 1 THEN Q(xneg, NSub(a, b), d, np)
  ELSE Q(yneg, NSub(b, a), d, np)

NMulIf(c, a, b) == IF c THEN NMul(a, b) ELSE a

QAdd(x, y) ==
  QAddSame(x.neg, NMulIf(x.d # y.d, x.n, y.d), y.neg, NMulIf(x.d # y.d, y.n, x.d),
           NMulIf(x.d # y.d, x.d, y.d), x.np \/ y.np)

QMul(x, y) == Q(x.neg # y.neg, NMul(x.n, y.n), NMul(x.d, y.d), x.np \/ y.np)

\* y nonzero
QDiv(x, y) == Q(x.neg # y.neg, NMul(x.n, y.d), NMul(x.d, y.n), x.np \/ y.np)

(***************************************************************************)
(* Bounds of terms: rationals and infinities, compared and combined as     *)
(* interval end points (zero times infinity is zero here).                 *)
(***************************************************************************)
BndSgn(x) == IF x.k = "pinf" THEN 1 ELSE IF x.k = "ninf" THEN -1 ELSE QSgn(x)

BndLe(x, y) ==
  IF x.k = "ninf" \/ y.k = "pinf" THEN TRUE
  ELSE IF x.k = "pinf" \/ y.k = "ninf" THEN FALSE
  ELSE QCmp(x, y) <= 0

BndNeg(x) ==
  IF x.k = "pinf" THEN NInf
  ELSE IF x.k = "ninf" THEN PInf
  ELSE [x EXCEPT !.neg = ~x.neg]

BndAdd(x, y) == IF IsInf(x) THEN x ELSE IF IsInf(y) THEN y ELSE QAdd(x, y)

BndMul(x, y) ==
  IF BndSgn(x) = 0 \/ BndSgn(y) = 0 THEN PZero
  ELSE IF IsInf(x) \/ IsInf(y)
  THEN (IF BndSgn(x) # BndSgn(y) THEN NInf ELSE PInf)
  ELSE QMul(x, y)

\* the least and the greatest of a sequence of bounds
RECURSIVE BndMin(_, _)
BndMin(s, n) ==
  IF n = 1 THEN s[1]
  ELSE IF BndLe(s[n], BndMin(s, n - 1)) THEN s[n] ELSE BndMin(s, n - 1)

RECURSIVE BndMax(_, _)
BndMax(s, n) ==
  IF n = 1 THEN s[1]
  ELSE IF BndLe(BndMax(s, n - 1), s[n]) THEN s[n] ELSE BndMax(s, n - 1)

\* bounds are kept in units of 1/Base^2, rounded outwards
Scale == <<0, 0, 1>>

Rounded(neg, dm, up) ==
  Q(neg, IF dm.r # <<>> /\ (up # neg) THEN NAdd(dm.q, <<1>>) ELSE dm.q, Scale,
    TRUE)

BndRound(x, up) ==
  IF x.k # "q" \/ x.d = Scale THEN x
  ELSE Rounded(x.neg, NDivMod(NMul(x.n, Scale), x.d), up)

\* a term with the bounds as given
RawTerm(lo, hi, e) ==
  [k |-> "t", lo |-> lo, hi |-> hi,
   sg |-> IF BndSgn(lo) >= 0 THEN 1 ELSE IF BndSgn(hi) <= 0 THEN -1 ELSE 2,
   e |-> e, np |-> TRUE]

Term(lo, hi, e) == RawTerm(BndRound(lo, FALSE), BndRound(hi, TRUE), e)

Lo(x) == IF x.k = "t" THEN x.lo ELSE x
Hi(x) == IF x.k = "t" THEN x.hi ELSE x

\* sign of a value: -1, 0, 1; 2 when its bounds do not tell, and for nan
Sgn(x) ==
  IF x.k = "q" THEN QSgn(x)
  ELSE IF x.k = "t" THEN x.sg
  ELSE IF x.k = "pinf" THEN 1
  ELSE IF x.k = "ninf" THEN -1
  ELSE 2

\* the sign bit, which a zero has too
NegBit(x) ==
  IF x.k = "q" THEN x.neg
  ELSE IF x.k = "t" THEN x.sg = -1
  ELSE x.k = "ninf"

InfOfSign(s) == IF s = 1 THEN PInf ELSE IF s = -1 THEN NInf ELSE Unk

(***************************************************************************)
(* Scalar float arithmetic: Python's and numpy's +, -, *, / on one pair of *)
(* numbers (neither an array nor a raised exception).                      *)
(***************************************************************************)
SNeg(x) ==
  IF x.k = "q" THEN [x EXCEPT !.neg = ~x.neg]
  ELSE IF x.k = "t" THEN RawTerm(BndNeg(x.hi), BndNeg(x.lo), [op |-> "neg", a |-> x])
  ELSE IF x.k = "pinf" THEN NInf
  ELSE IF x.k = "ninf" THEN PInf
  ELSE x

SAdd(x, y) ==
  IF x.k = "unk" \/ y.k = "unk" THEN Unk
  ELSE IF x.k = "nan" \/ y.k = "nan" THEN NaN
  ELSE IF IsInf(x) THEN (IF IsInf(y) /\ y.k # x.k THEN NaN ELSE [k |-> x.k, np |-> TRUE])
  ELSE IF IsInf(y) THEN [k |-> y.k, np |-> TRUE]
  ELSE IF x.k = "q" /\ y.k = "q" THEN QAdd(x, y)
  ELSE Term(BndAdd(Lo(x), Lo(y)), BndAdd(Hi(x), Hi(y)),
            [op |-> "add", a |-> x, b |-> y])

SSub(x, y) == SAdd(x, SNeg(y))

\* the term whose bounds are the least and the greatest of the products p
\* of the operands' bounds
TermOfProducts(p, e) == Term(BndMin(p, Len(p)), BndMax(p, Len(p)), e)

\* the product of two finite nonzero values, one of them a term
TermMul(x, y) ==
  TermOfProducts(
    IF x.k = "q" \/ y.k = "q"
    THEN <<BndMul(Lo(x), Lo(y)), BndMul(Hi(x), Hi(y))>>
    ELSE <<BndMul(Lo(x), Lo(y)), BndMul(Hi(x), Hi(y)),
           BndMul(Lo(x), Hi(y)), BndMul(Hi(x), Lo(y))>>,
    [op |-> "mul", a |-> x, b |-> y])

\* the sign of a product or a quotient of values of signs sx and sy
SgnOfProduct(sx, sy) ==
  IF sx = 0 \/ sy = 0 THEN 0 ELSE IF sx = 2 \/ sy = 2 THEN 2 ELSE sx * sy

SMul(x, y) ==
  IF x.k = "unk" \/ y.k = "unk" THEN Unk
  ELSE IF x.k = "nan" \/ y.k = "nan" THEN NaN
  ELSE IF IsInf(x) \/ IsInf(y)
  THEN (IF SgnOfProduct(Sgn(x), Sgn(y)) = 0 THEN NaN
        ELSE InfOfSign(SgnOfProduct(Sgn(x), Sgn(y))))
  ELSE IF x.k = "q" /\ y.k = "q" THEN QMul(x, y)
  ELSE IF IsZero(x) \/ IsZero(y)
  THEN (IF Sgn(x) = 2 \/ Sgn(y) = 2 THEN Unk ELSE Zero(NegBit(x) # NegBit(y)))
  ELSE TermMul(x, y)

\* a division that Python refuses for every zero divisor
ZeroDivision_any(x, y) == IsZero(y)

\* Python raises on a zero divisor when both operands are Python numbers;
\* numpy, which divides when either is a float64, does not
ZeroDivision(x, y) == IsZero(y) /\ ~x.np /\ ~y.np

\* 1 / y for a rational y # 0
QInv(y) == Q(y.neg, y.d, y.n, y.np)

\* the quotient of two finite nonzero values, the divisor a term: only its
\* sign is kept
TermDiv(x, y, nb) ==
  IF Sgn(x) = 2 \/ Sgn(y) = 2 THEN Unk
  ELSE RawTerm(IF nb THEN NInf ELSE PZero, IF nb THEN PZero ELSE PInf,
               [op |-> "div", a |-> x, b |-> y])

\* x / y; where it does not raise, a zero divisor gives inf or nan (with a
\* warning)
SDiv(x, y) ==
  IF ZeroDivision(x, y) THEN Raise("ZeroDivisionError")
  ELSE IF x.k = "unk" \/ y.k = "unk" THEN Unk
  ELSE IF x.k = "nan" \/ y.k = "nan" THEN NaN
  ELSE IF IsZero(y)
  THEN (IF Sgn(x) = 0 THEN NaN ELSE IF Sgn(x) = 2 THEN Unk
        ELSE InfOfSign(IF NegBit(x) # NegBit(y) THEN -1 ELSE 1))
  ELSE IF IsInf(y)
  THEN (IF IsInf(x) THEN NaN ELSE IF Sgn(x) = 2 THEN Unk
        ELSE Zero(NegBit(x) # NegBit(y)))
  ELSE IF IsInf(x)
  THEN (IF Sgn(y) = 2 THEN Unk
        ELSE InfOfSign(IF NegBit(x) # NegBit(y) THEN -1 ELSE 1))
  ELSE IF y.k = "q" THEN SMul(x, QInv(y))
  ELSE IF IsZero(x) THEN (IF Sgn(y) = 2 THEN Unk ELSE Zero(NegBit(x) # NegBit(y)))
  ELSE TermDiv(x, y, NegBit(x) # NegBit(y))

\* x < y in place of x <= y
SLe_strict(x, y) ==
  IF x.k \in {"nan", "unk"} \/ y.k \in {"nan", "unk"} THEN FALSE
  ELSE IF x.k = "pinf" \/ y.k = "ninf" THEN FALSE
  ELSE IF x.k = "ninf" \/ y.k = "pinf" THEN TRUE
  ELSE Sgn(SSub(x, y)) = -1

\* x <= y; a comparison with nan is false
SLe(x, y) ==
  IF x.k \in {"nan", "unk"} \/ y.k \in {"nan", "unk"} THEN FALSE
  ELSE IF x.k = "ninf" \/ y.k = "pinf" THEN TRUE
  ELSE IF x.k = "pinf" \/ y.k = "ninf" THEN FALSE
  ELSE Sgn(SSub(x, y)) \in {-1, 0}

(***************************************************************************)
(* numpy's elementwise functions on one number.                            *)
(***************************************************************************)
SetNp(x) == IF x.k \in {"raise", "arr", "b"} THEN x ELSE [x EXCEPT !.np = TRUE]

\* for naturals n >= d > 0: the k with d*10^k <= n < d*10^(k+1), and
\* whether n = d*10^k
RECURSIVE Log10Up(_, _, _)
Log10Up(n, d, k) ==
  IF NCmp(n, NMulLimb(d, 10, 0)) < 0 THEN [fl |-> k, exact |-> n = d]
  ELSE Log10Up(n, NMulLimb(d, 10, 0), k + 1)

\* for naturals 0 < n < d: the same, k < 0
RECURSIVE Log10Down(_, _, _)
Log10Down(n, d, k) ==
  IF NCmp(n, d) >= 0 THEN [fl |-> k, exact |-> n = d]
  ELSE Log10Down(NMulLimb(n, 10, 0), d, k - 1)

\* integer part of the base-10 logarithm of a positive rational
Log10Floor(x) ==
  IF NCmp(x.n, x.d) >= 0 THEN Log10Up(x.n, x.d, 0) ELSE Log10Down(x.n, x.d, 0)

\* i * ln(10) lies between LnTenLo(i) and LnTenHi(i): 2.302 < ln(10) < 2.303
LnTenLo(i) == IF i >= 0 THEN Py(2302 * i, 3) ELSE Py(2303 * i, 3)
LnTenHi(i) == IF i >= 0 THEN Py(2303 * i, 3) ELSE Py(2302 * i, 3)

\* ln(x) for a positive rational x with r = Log10Floor(x), bounded through
\* ln(x) = log10(x) * ln(10)
LogOf(x, r) ==
  IF r.exact /\ r.fl = 0 THEN PZero
  ELSE Term(LnTenLo(r.fl), LnTenHi(IF r.exact THEN r.fl ELSE r.fl + 1),
            [op |-> "log", a |-> x])

\* natural logarithm: -inf at zero, nan below zero, zero at 1
SLog(x) ==
  IF x.k = "unk" \/ (Sgn(x) = 2 /\ x.k # "nan") THEN Unk
  ELSE IF x.k \in {"nan", "ninf"} \/ Sgn(x) = -1 THEN NaN
  ELSE IF x.k = "pinf" THEN PInf
  ELSE IF Sgn(x) = 0 THEN NInf
  ELSE IF x.k = "t" THEN RawTerm(NInf, PInf, [op |-> "log", a |-> x])
  ELSE LogOf(x, Log10Floor(x))

\* log10(x) for a positive rational x with r = Log10Floor(x): exact at the
\* powers of ten, else between two consecutive integers
Log10Of(x, r) ==
  IF r.exact THEN QInt(r.fl)
  ELSE RawTerm(QInt(r.fl), QInt(r.fl + 1), [op |-> "log10", a |-> x])

\* base-10 logarithm
SLog10(x) ==
  IF x.k = "unk" \/ (Sgn(x) = 2 /\ x.k # "nan") THEN Unk
  ELSE IF x.k \in {"nan", "ninf"} \/ Sgn(x) = -1 THEN NaN
  ELSE IF x.k = "pinf" THEN PInf
  ELSE IF Sgn(x) = 0 THEN NInf
  ELSE IF x.k = "t" THEN RawTerm(NInf, PInf, [op |-> "log10", a |-> x])
  ELSE Log10Of(x, Log10Floor(x))

\* e^x for a finite nonzero x between lo and hi.  A float64 holds e^x up
\* to x = 709.78..., beyond which the result overflows to inf, and down to
\* x = -745.13..., below which it underflows to zero.
ExpOf(x, lo, hi) ==
  IF BndLe(QInt(710), lo) THEN PInf
  ELSE IF BndLe(hi, QInt(-746)) THEN PZero
  ELSE IF BndLe(hi, QInt(709)) /\ BndLe(QInt(-745), lo)
  THEN RawTerm(IF BndSgn(lo) >= 0 THEN One ELSE PZero,
               IF BndSgn(hi) <= 0 THEN One ELSE PInf, [op |-> "exp", a |-> x])
  ELSE Unk

\* exponential
SExp(x) ==
  IF x.k = "unk" THEN Unk
  ELSE IF x.k = "nan" THEN NaN
  ELSE IF x.k = "pinf" THEN PInf
  ELSE IF x.k = "ninf" THEN PZero
  ELSE IF IsZero(x) THEN One
  ELSE ExpOf(x, Lo(x), Hi(x))

\* x ** p for a numpy float64 x and a rational 0 < p < 1: nan for a
\* negative finite base; x < x^p < 1 below 1 and 1 < x^p < x above
SPowFrac(x, p) ==
  IF x.k = "unk" \/ (Sgn(x) = 2 /\ x.k # "nan") THEN Unk
  ELSE IF x.k = "nan" THEN NaN
  ELSE IF IsInf(x) THEN PInf
  ELSE IF Sgn(x) = 0 THEN PZero
  ELSE IF Sgn(x) = -1 THEN NaN
  ELSE IF x = One THEN One
  ELSE RawTerm(BndMin(<<Lo(x), One>>, 2), BndMax(<<Hi(x), One>>, 2),
               [op |-> "pow", a |-> x, b |-> p])

(***************************************************************************)
(* The operators as the source applies them: to Python numbers, numpy      *)
(* float64 scalars or numpy arrays.  An operand that raised ends the       *)
(* evaluation (the left operand is evaluated first); an array operand      *)
(* makes the operation elementwise, a scalar being broadcast.              *)
(***************************************************************************)
\* item i of an operand, a scalar or a one-item array being broadcast
Item(x, i) == IF x.k = "arr" THEN x.e[IF Len(x.e) = 1 THEN 1 ELSE i] ELSE x

\* the lengths of the array operands
Lens(x, y) ==
  (IF x.k = "arr" THEN {Len(x.e)} ELSE {}) \cup
  (IF y.k = "arr" THEN {Len(y.e)} ELSE {})

\* the number of scalar operations in x op y: none when an operand raised
\* or the shapes do not broadcast
Count(x, y) ==
  IF x.k = "raise" \/ y.k = "raise" \/ Cardinality(Lens(x, y) \ {1}) > 1 THEN 0
  ELSE IF Lens(x, y) \subseteq {1} THEN 1
  ELSE CHOOSE m \in Lens(x, y) : m # 1

\* the outcome of x op y, r being the results of its scalar operations
Outcome(x, y, r) ==
  IF x.k = "raise" THEN x
  ELSE IF y.k = "raise" THEN y
  ELSE IF Lens(x, y) = {} THEN r[1]
  ELSE IF Count(x, y) = 0 THEN Raise("ValueError")
  ELSE Arr([i \in 1..Count(x, y) |-> SetNp(r[i])])

Add(x, y) ==
  Outcome(x, y, [i \in 1..Count(x, y) |-> SAdd(Item(x, i), Item(y, i))])
Sub(x, y) ==
  Outcome(x, y, [i \in 1..Count(x, y) |-> SSub(Item(x, i), Item(y, i))])
Mul(x, y) ==
  Outcome(x, y, [i \in 1..Count(x, y) |-> SMul(Item(x, i), Item(y, i))])
Div(x, y) ==
  Outcome(x, y, [i \in 1..Count(x, y) |-> SDiv(Item(x, i), Item(y, i))])

\* x ** k for an integer literal k >= 1, by repeated squaring
Square(h) == Mul(h, h)
TimesIf(c, h, x) == IF c THEN Mul(h, x) ELSE h

RECURSIVE Pow(_, _)
Pow(x, k) ==
  IF k = 1 THEN x ELSE TimesIf(k % 2 = 1, Square(Pow(x, k \div 2)), x)

PowFrac(x, p) ==
  Outcome(x, p, [i \in 1..Count(x, p) |-> SPowFrac(Item(x, i), Item(p, i))])

\* the outcome of a numpy function of x, a numpy value
NpOutcome(x, r) ==
  IF x.k = "raise" THEN x
  ELSE IF x.k = "arr" THEN Arr([i \in 1..Len(x.e) |-> SetNp(r[i])])
  ELSE SetNp(r[1])

np_log(x) == NpOutcome(x, [i \in 1..Count(x, x) |-> SLog(Item(x, i))])
np_log10(x) == NpOutcome(x, [i \in 1..Count(x, x) |-> SLog10(Item(x, i))])
np_exp(x) == NpOutcome(x, [i \in 1..Count(x, x) |-> SExp(Item(x, i))])

\* x <= y: a boolean, or an array of booleans
Bool(v) == [k |-> "b", v |-> v]
BLe(x, y) == Bool(SLe(x, y))
Le(x, y) ==
  Outcome(x, y, [i \in 1..Count(x, y) |-> BLe(Item(x, i), Item(y, i))])

\* np.where(c, x, y): all three arguments are evaluated, then each element
\* is taken from x where c holds and from y elsewhere
np_where(c, x, y) ==
  LET lens == Lens(c, x) \cup Lens(y, y)
      n == IF lens \subseteq {1} THEN 1 ELSE CHOOSE m \in lens : m # 1
  IN  IF c.k = "raise" THEN c
      ELSE IF x.k = "raise" THEN x
      ELSE IF y.k = "raise" THEN y
      ELSE IF lens = {} THEN SetNp(IF c.v THEN x ELSE y)
      ELSE IF Cardinality(lens \ {1}) > 1 THEN Raise("ValueError")
      ELSE Arr([i \in 1..n |->
                 SetNp(IF Item(c, i).v THEN Item(x, i) ELSE Item(y, i))])

(***************************************************************************)
(* The equations.  Each decimal literal of the source is the Python float  *)
(* Py(m, s) = m * 10^-s; the expressions associate as Python parses them.  *)
(***************************************************************************)
\* bh_age**2 / (X / Y): the two divisions grouped from the right
king1966_df_regrouped(height, bh_age) ==
  Add(Py(45, 1),
      Div(Py(2500, 0),
          Div(Pow(bh_age, 2),
              Div(Add(Sub(Add(Sub(height, Py(45, 1)), Py(954038, 6)),
                          Mul(Py(558178, 7), bh_age)),
                      Mul(Py(733819, 9), Pow(bh_age, 2))),
                  Add(Add(Py(109757, 6), Mul(Py(792236, 8), bh_age)),
                      Mul(Py(197693, 9), Pow(bh_age, 2)))))))

king1966_df(height, bh_age) ==
  Add(Py(45, 1),
      Div(Py(2500, 0),
          Div(Div(Pow(bh_age, 2),
                  Add(Sub(Add(Sub(height, Py(45, 1)), Py(954038, 6)),
                          Mul(Py(558178, 7), bh_age)),
                      Mul(Py(733819, 9), Pow(bh_age, 2)))),
              Add(Add(Py(109757, 6), Mul(Py(792236, 8), bh_age)),
                  Mul(Py(197693, 9), Pow(bh_age, 2))))))

cochran1979_gf(height, bh_age) ==
  LET L == np_log(bh_age)
      x1 == Add(Sub(Add(Sub(Py(38886, 4), Mul(Py(18017, 4), L)),
                        Mul(Py(2105, 4), Pow(L, 2))),
                    Mul(Py(2885, 10), Pow(L, 9))),
                Mul(Py(1187, 21), Pow(L, 24)))
      x2 == Sub(Add(Sub(Add(Add(Py(-30935, 5), Mul(Py(12383, 4), L)),
                            Mul(Py(1762, 6), Pow(L, 4))),
                        Mul(Py(54, 7), Pow(L, 9))),
                    Mul(Py(2046, 10), Pow(L, 11))),
                Mul(Py(404, 15), Pow(L, 18)))
  IN  Add(Sub(Mul(Sub(height, Py(45, 1)), np_exp(x1)),
              Mul(np_exp(x1), np_exp(x2))),
          Py(8943, 2))

wiley1978_wh(height, bh_age) ==
  Mul(Py(2500, 0),
      Div(Mul(Sub(height, Py(45, 1)),
              Add(Add(Py(1394, 4), Mul(Py(137, 4), bh_age)),
                  Mul(Py(7, 5), Pow(bh_age, 2)))),
          Sub(Pow(bh_age, 2),
              Mul(Sub(height, Py(45, 1)),
                  Add(Sub(Py(-17307, 4), Mul(Py(616, 4), bh_age)),
                      Mul(Py(192, 5), Pow(bh_age, 2)))))))

\* the breast-height age used as it is given
harrington_age_unadjusted(bh_age) == bh_age

\* age = bh_age + 1
harrington_age(bh_age) == Add(bh_age, Py(1, 0))

harrington1986_ra(height, bh_age) ==
  LET age == harrington_age(bh_age)
      a == Sub(Add(Sub(Py(541850, 4), Mul(Py(461694, 5), age)),
                   Mul(Py(11065, 5), Pow(age, 2))),
               Mul(Py(7633, 7), Pow(age, 3)))
      b == Add(Sub(Py(125934, 5), Mul(Py(12989, 6), age)),
               Mul(Py(35220, 4), Pow(Div(Py(1, 0), age), 3)))
  IN  Add(a, Mul(b, height))

\* the list with 100 mistyped as 99
AGE_LOOKUP_typo == [i \in 1..141 |-> IF i = 91 THEN 99 ELSE 9 + i]

AGE_LOOKUP ==
  <<10, 11, 12, 13, 14, 15, 16, 17, 18, 19, 20, 21, 22, 23, 24, 25, 26, 27,
    28, 29, 30, 31, 32, 33, 34, 35, 36, 37, 38, 39, 40, 41, 42, 43, 44, 45,
    46, 47, 48, 49, 50, 51, 52, 53, 54, 55, 56, 57, 58, 59, 60, 61, 62, 63,
    64, 65, 66, 67, 68, 69, 70, 71, 72, 73, 74, 75, 76, 77, 78, 79, 80, 81,
    82, 83, 84, 85, 86, 87, 88, 89, 90, 91, 92, 93, 94, 95, 96, 97, 98, 99,
    100, 101, 102, 103, 104, 105, 106, 107, 108, 109, 110, 111, 112, 113,
    114, 115, 116, 117, 118, 119, 120, 121, 122, 123, 124, 125, 126, 127,
    128, 129, 130, 131, 132, 133, 134, 135, 136, 137, 138, 139, 140, 141,
    142, 143, 144, 145, 146, 147, 148, 149, 150>>

A2_LOOKUP ==
  <<43220, 42069, 40753, 39327, 37827, 36279, 34705, 33120, 31536, 29963,
    28408, 26879, 25380, 23914, 22486, 21098, 19751, 18448, 17189, 15975,
    14806, 13682, 12603, 11569, 10580, 9634, 8731, 7870, 7050, 6271, 5530,
    4826, 4160, 3529, 2932, 2368, 1836, 1334, 862, 418, 0, -391, -758,
    -1102, -1423, -1723, -2003, -2264, -2507, -2732, -2942, -3136, -3316,
    -3482, -3635, -3777, -3908, -4028, -4138, -4239, -4332, -4418, -4496,
    -4567, -4633, -4692, -4747, -4798, -4844, -4886, -4925, -4961, -4995,
    -5026, -5056, -5083, -5110, -5135, -5159, -5182, -5205, -5228, -5250,
    -5273, -5295, -5318, -5341, -5364, -5388, -5412, -5437, -5463, -5489,
    -5515, -5543, -5570, -5598, -5627, -5656, -5685, -5714, -5743, -5772,
    -5801, -5830, -5858, -5885, -5912, -5937, -5961, -5984, -6005, -6024,
    -6041, -6055, -6067, -6075, -6081, -6082, -6080, -6073, -6062, -6046,
    -6024, -5997, -5964, -5925, -5878, -5825, -5764, -5694, -5617, -5530,
    -5435, -5329, -5213, -5087, -4950, -4801, -4640, -4467>>

B2_LOOKUP ==
  <<2330, 2143, 1998, 1884, 1792, 1716, 1652, 1598, 1551, 1510, 1474, 1441,
    1412, 1385, 1360, 1338, 1316, 1296, 1278, 1260, 1243, 1227, 1211, 1197,
    1182, 1169, 1155, 1142, 1130, 1117, 1105, 1094, 1082, 1071, 1060, 1050,
    1039, 1029, 1019, 1010, 1000, 991, 982, 973, 964, 955, 947, 939, 930,
    923, 916, 907, 900, 893, 885, 878, 872, 865, 858, 852, 846, 840, 834,
    828, 822, 817, 811, 806, 801, 796, 791, 786, 781, 777, 772, 768, 764,
    760, 756, 752, 748, 744, 741, 737, 734, 730, 727, 724, 721, 718, 715,
    712, 709, 707, 704, 702, 699, 697, 694, 692, 690, 688, 686, 684, 682,
    680, 678, 676, 674, 672, 671, 669, 667, 665, 664, 662, 661, 659, 657,
    656, 654, 653, 651, 650, 648, 647, 645, 643, 642, 640, 639, 637, 635,
    634, 632, 630, 628, 626, 624, 622, 620>>

(***************************************************************************)
(* farr1984_ss: the coefficient table is a pandas DataFrame built from the *)
(* three lists and indexed by age; the a2 and b2 entries are thousandths.  *)
(***************************************************************************)
\* pd.DataFrame(data = {...}).set_index('age'): columns of unequal length
\* cannot be put in one frame
DataFrame(age, a2, b2) ==
  IF Len(age) = Len(a2) /\ Len(a2) = Len(b2)
  THEN [k |-> "frame", index |-> age, a2 |-> a2, b2 |-> b2]
  ELSE Raise("ValueError")

\* the positions found one row off: the label before the key
Positions_neighbour(frame, key) ==
  {i \in 1..Len(frame.index) :
     key.k = "q" /\ QCmp(key, QInt(frame.index[i] + 1)) = 0}

\* the positions found by rounding the key down to a whole year
Positions_floor(frame, key) ==
  {i \in 1..Len(frame.index) :
     key.k = "q" /\ QCmp(QInt(frame.index[i]), key) <= 0
       /\ QCmp(key, QInt(frame.index[i] + 1)) < 0}

\* the positions of the index labels equal to the key
Positions(frame, key) ==
  {i \in 1..Len(frame.index) :
     key.k = "q" /\ QCmp(key, QInt(frame.index[i])) = 0}

Row(frame, i) == Arr(<<Np(frame.a2[i], 3), Np(frame.b2[i], 3)>>)

RECURSIVE RowsOf(_, _)
RowsOf(frame, ps) ==
  IF ps = {} THEN <<>>
  ELSE LET i == CHOOSE j \in ps : \A m \in ps : j <= m
       IN  <<Row(frame, i)>> \o RowsOf(frame, ps \ {i})

RECURSIVE RowsOfKeys(_, _)
RowsOfKeys(frame, keys) ==
  IF keys = <<>> THEN <<>>
  ELSE RowsOf(frame, Positions(frame, Head(keys))) \o RowsOfKeys(frame, Tail(keys))

\* frame.loc[key].values: for a scalar key found once, the row as a
\* 1-dimensional array; for an array key (or a label found several times),
\* the 2-dimensional array of the rows; KeyError if a label is not found
LocValues(frame, key) ==
  IF key.k = "arr"
  THEN IF \E i \in 1..Len(key.e) : Positions(frame, key.e[i]) = {}
       THEN Raise("KeyError")
       ELSE Arr(RowsOfKeys(frame, key.e))
  ELSE LET ps == Positions(frame, key)
       IN  IF ps = {} THEN Raise("KeyError")
           ELSE IF Cardinality(ps) = 1 THEN Row(frame, CHOOSE i \in ps : TRUE)
           ELSE Arr(RowsOf(frame, ps))

coefs == DataFrame(AGE_LOOKUP, A2_LOOKUP, B2_LOOKUP)

\* a2, b2 = coefs.loc[bh_age].values: the unpacking iterates the first axis
\* of the array, which must have exactly two items
farr1984_unpack(bh_age) ==
  LET v == IF coefs.k = "raise" THEN coefs ELSE LocValues(coefs, bh_age)
  IN  IF v.k = "raise" THEN v
      ELSE IF Len(v.e) # 2 THEN Raise("ValueError")
      ELSE [k |-> "pair", a2 |-> v.e[1], b2 |-> v.e[2]]

farr1984_ss(height, bh_age) ==
  LET u == farr1984_unpack(bh_age)
  IN  IF u.k = "raise" THEN u
      ELSE Add(Add(Py(45, 1), u.a2), Mul(u.b2, Sub(height, Py(45, 1))))

(***************************************************************************)
(* curtis1974_df                                                           *)
(***************************************************************************)
curtis_a_le(bh_age) == Mul(Py(10006, 6), Pow(Sub(Py(100, 0), bh_age), 2))

curtis_a_gt(bh_age) ==
  Mul(Py(766772, 5),
      np_exp(Mul(Py(95, 2), Pow(Sub(Div(Py(100, 0), bh_age), Py(100, 0)), 2))))

curtis_b_le(bh_age) ==
  Add(Add(Py(10, 1), Mul(Py(549779, 8), Sub(Py(100, 0), bh_age))),
      Mul(Py(146842, 19), Pow(Sub(Py(100, 0), bh_age), 7)))

curtis_b_gt(bh_age) ==
  Sub(Py(10, 1),
      Mul(Py(730948, 6), PowFrac(Sub(np_log10(bh_age), Py(20, 1)), Py(80, 2))))

curtis_a(bh_age) ==
  np_where(Le(bh_age, Py(100, 0)), curtis_a_le(bh_age), curtis_a_gt(bh_age))

curtis_b(bh_age) ==
  np_where(Le(bh_age, Py(100, 0)), curtis_b_le(bh_age), curtis_b_gt(bh_age))

curtis1974_df(height, bh_age) ==
  Add(Add(curtis_a(bh_age), Mul(curtis_b(bh_age), Sub(height, Py(45, 1)))),
      Py(45, 1))

(***************************************************************************)
(* The program as a state machine.  The module keeps no state between      *)
(* calls: every function is a function of its two arguments alone.  A      *)
(* behaviour fixes one pair of arguments and calls the six functions on    *)
(* it, in any order and any number of times; a state is the frame of the   *)
(* latest call: the function called, its arguments, its named locals and   *)
(* its outcome (the value returned or the exception raised).               *)
(***************************************************************************)
VARIABLES fn, args, locals, site_index

vars == <<fn, args, locals, site_index>>

\* longest array passed in one call
MaxN == 2

\* argument values, in tenths (feet, years)
HeightTenths == {0, 45, 50, 600, 1000, 3000}
AgeTenths == {-10, 0, 90, 100, 200, 500, 505, 1000, 1010, 1500, 1510}
VecHeightTenths == {600, 1000}
VecAgeTenths == {200, 1500}

Num(m, np) == IF np THEN Np(m, 1) ELSE Py(m, 1)

\* scalar arguments: each a Python number or a numpy float64
ScalarArgs ==
  {[height |-> Num(h, hn), bh_age |-> Num(a, an)] :
     h \in HeightTenths, a \in AgeTenths, hn \in BOOLEAN, an \in BOOLEAN}

\* element-aligned numpy arrays of 1..MaxN items
VectorArgs ==
  UNION {{[height |-> Arr([i \in 1..n |-> Np(hs[i], 1)]),
           bh_age |-> Arr([i \in 1..n |-> Np(as[i], 1)])] :
            hs \in [1..n -> VecHeightTenths], as \in [1..n -> VecAgeTenths]} :
         n \in 1..MaxN}

Args == ScalarArgs \cup VectorArgs

NoLocals == [k |-> "none"]

Init ==
  /\ fn = "none"
  /\ args \in Args
  /\ locals = NoLocals
  /\ site_index = [k |-> "none"]

King ==
  /\ fn' = "king1966_df"
  /\ locals' = NoLocals
  /\ site_index' = king1966_df(args.height, args.bh_age)
  /\ UNCHANGED args

Cochran ==
  /\ fn' = "cochran1979_gf"
  /\ locals' = NoLocals
  /\ site_index' = cochran1979_gf(args.height, args.bh_age)
  /\ UNCHANGED args

Wiley ==
  /\ fn' = "wiley1978_wh"
  /\ locals' = NoLocals
  /\ site_index' = wiley1978_wh(args.height, args.bh_age)
  /\ UNCHANGED args

Harrington ==
  /\ fn' = "harrington1986_ra"
  /\ locals' = [k |-> "harrington", age |-> harrington_age(args.bh_age)]
  /\ site_index' = harrington1986_ra(args.height, args.bh_age)
  /\ UNCHANGED args

Farr ==
  /\ fn' = "farr1984_ss"
  /\ locals' = [k |-> "farr", coefs |-> coefs,
                a2b2 |-> farr1984_unpack(args.bh_age)]
  /\ site_index' = farr1984_ss(args.height, args.bh_age)
  /\ UNCHANGED args

Curtis ==
  /\ fn' = "curtis1974_df"
  /\ locals' = [k |-> "curtis", a |-> curtis_a(args.bh_age),
                b |-> curtis_b(args.bh_age)]
  /\ site_index' = curtis1974_df(args.height, args.bh_age)
  /\ UNCHANGED args

Next == King \/ Cochran \/ Wiley \/ Harrington \/ Farr \/ Curtis

Spec == Init /\ [][Next]_vars

(***************************************************************************)
(* Properties.                                                             *)
(***************************************************************************)
IsScalarCall == args.height.k = "q" /\ args.bh_age.k = "q"
IsVectorCall == args.height.k = "arr" /\ args.bh_age.k = "arr"

\* the same number, the same exception, or item by item the same array
RECURSIVE ValEq(_, _)
ValEq(x, y) ==
  IF x.k # y.k THEN FALSE
  ELSE IF x.k = "q" THEN QCmp(x, y) = 0
  ELSE IF x.k = "t" THEN x.e = y.e
  ELSE IF x.k = "raise" THEN x.exc = y.exc
  ELSE IF x.k = "arr"
  THEN Len(x.e) = Len(y.e) /\ \A i \in 1..Len(x.e) : ValEq(x.e[i], y.e[i])
  ELSE TRUE

IsInt(x, i) == x.k = "q" /\ QCmp(x, QInt(i)) = 0
IsTenths(x, m) == x.k = "q" /\ QCmp(x, Py(m, 1)) = 0
QSub(x, y) == QAdd(x, [y EXCEPT !.neg = ~y.neg])

FarrSiteIndex(height, a2, b2) ==
  QAdd(QAdd(Py(45, 1), a2), QMul(b2, QSub(height, Py(45, 1))))

\* C1: farr1984_ss called with a scalar bh_age equal to an integer k in
\* 10..150 succeeds, unpacks the (a2, b2) stored for k itself (the k-9th
\* entries of the two coefficient lists) and returns
\* 4.5 + a2 + b2*(height - 4.5).
FarrExactRow ==
  (fn = "farr1984_ss" /\ IsScalarCall) =>
    \A k \in 10..150 :
      IsInt(args.bh_age, k) =>
        /\ locals.a2b2.k = "pair"
        /\ ValEq(locals.a2b2.a2, Np(A2_LOOKUP[k - 9], 3))
        /\ ValEq(locals.a2b2.b2, Np(B2_LOOKUP[k - 9], 3))
        /\ site_index.k = "q"
        /\ QCmp(site_index,
                FarrSiteIndex(args.height, Np(A2_LOOKUP[k - 9], 3),
                              Np(B2_LOOKUP[k - 9], 3))) = 0

FarrLookupHit ==
  /\ fn = "farr1984_ss"
  /\ IsScalarCall
  /\ IsInt(args.bh_age, 20)
  /\ site_index.k = "q"

\* C2: farr1984_ss called with a scalar bh_age that is no integer in
\* 10..150 ends in KeyError; it returns no site index.
FarrLookupMiss ==
  (fn = "farr1984_ss" /\ IsScalarCall
     /\ ~ \E k \in 10..150 : IsInt(args.bh_age, k)) =>
    (site_index.k = "raise" /\ site_index.exc = "KeyError")

FarrHalfYearRaises ==
  /\ fn = "farr1984_ss"
  /\ IsScalarCall
  /\ IsTenths(args.bh_age, 505)
  /\ site_index.k = "raise"

\* C7: the table farr1984_ss builds is a frame (the three lists have one
\* length) of 141 rows whose index holds every integer 10..150 exactly
\* once and nothing else.
FarrTableTotal ==
  fn = "farr1984_ss" =>
    /\ locals.coefs.k = "frame"
    /\ Len(locals.coefs.index) = 141
    /\ Len(locals.coefs.a2) = Len(locals.coefs.index)
    /\ Len(locals.coefs.b2) = Len(locals.coefs.index)
    /\ \A k \in 10..150 :
         Cardinality({i \in 1..Len(locals.coefs.index) :
                        locals.coefs.index[i] = k}) = 1
    /\ \A i \in 1..Len(locals.coefs.index) : locals.coefs.index[i] \in 10..150

FarrTableBuilt ==
  /\ fn = "farr1984_ss"
  /\ locals.coefs.k = "frame"
  /\ Len(locals.coefs.index) > 0

QSq(x) == QMul(x, x)
QCube(x) == QMul(x, QMul(x, x))

KingX(height, bh_age) ==
  QAdd(QSub(QAdd(QSub(height, Py(45, 1)), Py(954038, 6)),
            QMul(Py(558178, 7), bh_age)),
       QMul(Py(733819, 9), QSq(bh_age)))

KingY(bh_age) ==
  QAdd(QAdd(Py(109757, 6), QMul(Py(792236, 8), bh_age)),
       QMul(Py(197693, 9), QSq(bh_age)))

\* C8: a finite result s of king1966_df on scalars satisfies
\* (s - 4.5) * bh_age^2 = 2500 * X * Y, which is s = 4.5 + 2500/(bh_age^2/X/Y)
\* with the divisions taken left to right; for height = 100, bh_age = 50
\* the result is finite and lies between 80 and 140.
KingFormula ==
  (fn = "king1966_df" /\ IsScalarCall) =>
    /\ site_index.k = "q" =>
         QCmp(QMul(QSub(site_index, Py(45, 1)), QSq(args.bh_age)),
              QMul(Py(2500, 0),
                   QMul(KingX(args.height, args.bh_age), KingY(args.bh_age)))) = 0
    /\ (IsInt(args.height, 100) /\ IsInt(args.bh_age, 50)) =>
         /\ site_index.k = "q"
         /\ QCmp(site_index, QInt(80)) > 0
         /\ QCmp(site_index, QInt(140)) < 0

KingHundredFifty ==
  /\ fn = "king1966_df"
  /\ IsInt(args.height, 100)
  /\ IsInt(args.bh_age, 50)
  /\ site_index.k = "q"

HarringtonA(t) ==
  QSub(QAdd(QSub(Py(541850, 4), QMul(Py(461694, 5), t)),
            QMul(Py(11065, 5), QSq(t))),
       QMul(Py(7633, 7), QCube(t)))

\* C9: harrington1986_ra on scalars with bh_age # -1 binds age to
\* t = bh_age + 1 and returns the finite s = a(t) + b(t)*height, stated
\* without the division as
\* (s - a(t) - (1.25934 - 0.012989*t)*height) * t^3 = 3.5220*height.
HarringtonAdjustedAge ==
  (fn = "harrington1986_ra" /\ IsScalarCall /\ ~IsInt(args.bh_age, -1)) =>
    LET t == QAdd(args.bh_age, QInt(1))
    IN  /\ locals.age.k = "q"
        /\ QCmp(locals.age, t) = 0
        /\ site_index.k = "q"
        /\ QCmp(QMul(QSub(QSub(site_index, HarringtonA(t)),
                          QMul(QSub(Py(125934, 5), QMul(Py(12989, 6), t)),
                               args.height)),
                     QCube(t)),
                QMul(Py(35220, 4), args.height)) = 0

HarringtonSixtyTwenty ==
  /\ fn = "harrington1986_ra"
  /\ IsInt(args.height, 60)
  /\ IsInt(args.bh_age, 20)
  /\ IsInt(locals.age, 21)
  /\ site_index.k = "q"

CurtisALe(bh_age) == QMul(Py(10006, 6), QSq(QSub(QInt(100), bh_age)))

CurtisBLe(bh_age) ==
  LET u == QSub(QInt(100), bh_age)
  IN  QAdd(QAdd(QInt(1), QMul(Py(549779, 8), u)),
           QMul(Py(146842, 19), QMul(QCube(u), QMul(QCube(u), u))))

\* C4: in a call of curtis1974_df on scalars that evaluates a and b, for
\* bh_age <= 100 both are the values of the '<= 100' formulas and a is not
\* the value of the '> 100' formula, nor is b except at bh_age = 100 where
\* the two formulas for b agree; for bh_age > 100 both are the values of the
\* '> 100' formulas and neither is the value of its '<= 100' formula; at
\* bh_age = 100 a = 0, b = 1 and the site index returned is the height.
CurtisBranch ==
  (fn = "curtis1974_df" /\ IsScalarCall
     /\ locals.a.k # "raise" /\ locals.b.k # "raise") =>
    LET age == args.bh_age
        ale == CurtisALe(age)
        ble == CurtisBLe(age)
    IN  /\ QCmp(age, QInt(100)) <= 0 =>
              /\ ValEq(locals.a, ale)
              /\ ValEq(locals.b, ble)
              /\ ~ValEq(locals.a, curtis_a_gt(age))
              /\ ~IsInt(age, 100) => ~ValEq(locals.b, curtis_b_gt(age))
        /\ QCmp(age, QInt(100)) > 0 =>
              /\ ValEq(locals.a, curtis_a_gt(age))
              /\ ValEq(locals.b, curtis_b_gt(age))
              /\ ~ValEq(locals.a, ale)
              /\ ~ValEq(locals.b, ble)
        /\ IsInt(age, 100) =>
              /\ IsInt(locals.a, 0)
              /\ IsInt(locals.b, 1)
              /\ ValEq(site_index, args.height)

CurtisAtHundred ==
  /\ fn = "curtis1974_df"
  /\ IsScalarCall
  /\ IsInt(args.bh_age, 100)
  /\ IsInt(locals.a, 0)
  /\ ValEq(site_index, args.height)

NonFarr ==
  {"king1966_df", "cochran1979_gf", "wiley1978_wh", "harrington1986_ra",
   "curtis1974_df"}

\* the four calls whose formulas divide by zero
KingAtZero == fn = "king1966_df" /\ IsInt(args.bh_age, 0)
HarringtonAtMinusOne == fn = "harrington1986_ra" /\ IsInt(args.bh_age, -1)
WileyAtZero ==
  fn = "wiley1978_wh" /\ IsInt(args.bh_age, 0) /\ IsTenths(args.height, 45)
CurtisAtZero == fn = "curtis1974_df" /\ IsInt(args.bh_age, 0)

Raised == site_index.k = "raise"

Apply(f, height, bh_age) ==
  IF f = "king1966_df" THEN king1966_df(height, bh_age)
  ELSE IF f = "cochran1979_gf" THEN cochran1979_gf(height, bh_age)
  ELSE IF f = "wiley1978_wh" THEN wiley1978_wh(height, bh_age)
  ELSE IF f = "harrington1986_ra" THEN harrington1986_ra(height, bh_age)
  ELSE IF f = "farr1984_ss" THEN farr1984_ss(height, bh_age)
  ELSE curtis1974_df(height, bh_age)

ElementwiseResult ==
  /\ site_index.k = "arr"
  /\ Len(site_index.e) = Len(args.bh_age.e)
  /\ \A i \in 1..Len(args.bh_age.e) :
       ValEq(site_index.e[i], Apply(fn, args.height.e[i], args.bh_age.e[i]))

\* C5: a call of any of the six functions on element-aligned arrays of N
\* heights and N ages returns N results, the i-th equal to the result of
\* the scalar call on the i-th pair.
VectorizationConsistent ==
  (fn # "none" /\ IsVectorCall) => ElementwiseResult

\* C10: at the reference age, bh_age = 50, king1966_df, wiley1978_wh and
\* farr1984_ss called with an integer height 5..300 return a value within
\* 1 foot of the height, farr1984_ss the height itself.
ReferenceAgeIdentity ==
  (fn \in {"king1966_df", "wiley1978_wh", "farr1984_ss"} /\ IsScalarCall
     /\ IsInt(args.bh_age, 50) /\ \E h \in 5..300 : IsInt(args.height, h)) =>
    /\ site_index.k = "q"
    /\ QCmp(QSub(site_index, args.height), QInt(1)) <= 0
    /\ QCmp(QSub(site_index, args.height), QInt(-1)) >= 0
    /\ fn = "farr1984_ss" => ValEq(site_index, args.height)

\* no value of a call is left undecided by the number model
RECURSIVE HasUnk(_)
HasUnk(v) ==
  IF v.k = "unk" THEN TRUE
  ELSE IF v.k = "arr" THEN \E i \in 1..Len(v.e) : HasUnk(v.e[i])
  ELSE FALSE

Decided == ~HasUnk(site_index)

====
